---- MODULE Spec2Model ----
(***************************************************************************)
(* Troia Media Dashboard backend (src/main.py): the in-memory event log,   *)
(* the pipeline status record, the upstream adapters and the request       *)
(* handlers that read and write them.                                      *)
(***************************************************************************)
EXTENDS Integers, Sequences, FiniteSets, Bags, TLC

VARIABLES
    event_log,        \* the deque of events, index 1 is the left (newest) end
    pipeline_status,  \* the pipeline status dict
    now,              \* the value datetime.utcnow() returns
    request,          \* the last request handled: the handler and its input
    response,         \* the value that handler returned
    appended,         \* history: every event passed to appendleft, oldest first
    completions,      \* history: update_pipeline calls with a true completed flag
                      \* that returned status updated
    logged,           \* history: responses returned with status logged
    inflight,         \* the requests suspended at "await request.json()", a bag
    config,           \* the environment variables set to a non-empty value
    outbound          \* outbound HTTP calls the last request made

vars == <<event_log, pipeline_status, now, request, response, appended, completions,
          logged, inflight, config, outbound>>

(***************************************************************************)
(* Bounds of the model.                                                    *)
(***************************************************************************)
MaxAppends == 102   \* appends handled in one behaviour
VariedHead == 1     \* the first VariedHead and the last VariedTail of them take
VariedTail == 2     \* any handler and body; the ones between are log_event of {}
MaxClock == 1       \* ticks of the clock in one behaviour
MaxCompleted == 2   \* completed updates counted in one behaviour
MaxInFlight == 2    \* requests suspended at their await at one time

(***************************************************************************)
(* JSON values, as request.json() and response.json() deliver them.  Each  *)
(* kind keeps its payload in a field of its own.                           *)
(***************************************************************************)
JNull == [t |-> "null"]
JBool(b) == [t |-> "bool", b |-> b]
JNum(n) == [t |-> "num", n |-> n]
JStr(s) == [t |-> "str", s |-> s]
JArr(a) == [t |-> "arr", a |-> a]
JObj(o) == [t |-> "obj", o |-> o]
\* a body that json() cannot parse
Invalid == [t |-> "invalid"]
EmptyDict == [k \in {} |-> JNull]

\* dict.get exists on dict only; on any other value it raises AttributeError
HasGet(data) == data.t = "obj"
\* data.get(key, default)
Get(data, key, default) == IF key \in DOMAIN data.o THEN data.o[key] ELSE default
\* bool(v)
Truthy(v) ==
    CASE v.t = "null" -> FALSE
      [] v.t = "bool" -> v.b
      [] v.t = "num" -> v.n # 0
      [] v.t = "str" -> v.s # ""
      [] v.t = "arr" -> Len(v.a) > 0
      [] v.t = "obj" -> DOMAIN v.o # {}
      [] OTHER -> TRUE

\* datetime.utcnow().isoformat() at clock value n
isoformat(n) == [t |-> "str", iso |-> n]
\* f"AUTONOMOUS: {v}"
Autonomous(v) == [t |-> "str", fmt |-> "AUTONOMOUS: ", arg |-> v]

(***************************************************************************)
(* The event log.                                                          *)
(***************************************************************************)
maxlen == 100

\* appendleft that drops at the left end of the old items instead
appendleft_drops_left(d, x) ==
    IF Len(d) >= maxlen THEN <<x>> \o SubSeq(d, 2, maxlen) ELSE <<x>> \o d

\* deque.appendleft under maxlen: a full deque drops the item at its right end
appendleft(d, x) ==
    IF Len(d) >= maxlen THEN <<x>> \o SubSeq(d, 1, maxlen - 1) ELSE <<x>> \o d

\* list(d)[:limit]
Slice(d, limit) ==
    IF limit >= 0
    THEN SubSeq(d, 1, IF limit < Len(d) THEN limit ELSE Len(d))
    ELSE SubSeq(d, 1, IF Len(d) + limit > 0 THEN Len(d) + limit ELSE 0)

\* the event log_event builds from a parsed body
Event(data) ==
    [id |-> Len(event_log) + 1,
     timestamp |-> isoformat(now),
     type |-> Get(data, "type", JStr("info")),
     source |-> Get(data, "source", JStr("system")),
     message |-> Get(data, "message", JStr("")),
     details |-> Get(data, "details", JObj(EmptyDict))]

\* the event log_agent_decision builds from a parsed body
Decision(data) ==
    [id |-> Len(event_log) + 1,
     timestamp |-> isoformat(now),
     type |-> JStr("decision"),
     source |-> JStr("claude"),
     message |-> Autonomous(Get(data, "action", JStr("Unknown action"))),
     details |-> JObj([reason |-> Get(data, "reason", JStr("")),
                       confidence |-> Get(data, "confidence", JStr("high")),
                       result |-> Get(data, "result", JStr("pending"))])]

\* str(e) of the exception a handler catches
ErrorOf(data) == IF data = Invalid THEN "JSONDecodeError" ELSE "AttributeError"

EventBodies ==
    {Invalid, JArr(<<>>), JNull, JStr("x"), JObj(EmptyDict),
     JObj([type |-> JStr("error"), source |-> JStr("n8n"), message |-> JStr("m")])}

DecisionBodies ==
    {Invalid, JNull, JObj(EmptyDict), JObj([action |-> JStr("upload")])}

Limits == {-1, 0, 2, 150}

\* between the varied head and the varied tail of a behaviour's appends
Quiet == Len(appended) >= VariedHead /\ Len(appended) < MaxAppends - VariedTail

\* log_event that records a default event before it fails on the body
log_event_records_first(body) ==
    /\ request' = [op |-> "log_event", body |-> body]
    /\ IF ~HasGet(body)
       THEN /\ response' = [error |-> ErrorOf(body)]
            /\ event_log' = appendleft(event_log, Event(JObj(EmptyDict)))
            /\ UNCHANGED appended
       ELSE LET event == Event(body) IN
            /\ Len(appended) < MaxAppends
            /\ Quiet => body = JObj(EmptyDict)
            /\ event_log' = appendleft(event_log, event)
            /\ appended' = Append(appended, event)
            /\ response' = [status |-> "logged", event_id |-> event.id]
    /\ logged' = IF "status" \in DOMAIN response' THEN logged + 1 ELSE logged
    /\ UNCHANGED <<pipeline_status, now, completions>>

\* POST /api/events/log
log_event(body) ==
    /\ request' = [op |-> "log_event", body |-> body]
    /\ IF ~HasGet(body)
       THEN /\ response' = [error |-> ErrorOf(body)]
            /\ UNCHANGED <<event_log, appended>>
       ELSE LET event == Event(body) IN
            /\ Len(appended) < MaxAppends
            /\ Quiet => body = JObj(EmptyDict)
            /\ event_log' = appendleft(event_log, event)
            /\ appended' = Append(appended, event)
            /\ response' = [status |-> "logged", event_id |-> event.id]
    /\ logged' = IF "status" \in DOMAIN response' THEN logged + 1 ELSE logged
    /\ UNCHANGED <<pipeline_status, now, completions>>

\* POST /api/agent/decision
log_agent_decision(body) ==
    /\ request' = [op |-> "log_agent_decision", body |-> body]
    /\ IF ~HasGet(body)
       THEN /\ response' = [error |-> ErrorOf(body)]
            /\ UNCHANGED <<event_log, appended>>
       ELSE LET decision == Decision(body) IN
            /\ Len(appended) < MaxAppends
            /\ ~Quiet
            /\ event_log' = appendleft(event_log, decision)
            /\ appended' = Append(appended, decision)
            /\ response' = [status |-> "logged", decision_id |-> decision.id]
    /\ logged' = IF "status" \in DOMAIN response' THEN logged + 1 ELSE logged
    /\ UNCHANGED <<pipeline_status, now, completions>>

\* GET /api/events?limit=
get_events(limit) ==
    /\ request' = [op |-> "get_events", limit |-> limit]
    /\ response' = [events |-> Slice(event_log, limit), total |-> Len(event_log)]
    /\ UNCHANGED <<event_log, appended, pipeline_status, now, completions, logged>>

(***************************************************************************)
(* The pipeline status.                                                    *)
(***************************************************************************)
Opt(key, vals) == {EmptyDict} \cup {[k \in {key} |-> v] : v \in vals}

UpdateBodies ==
    {Invalid, JArr(<<>>)} \cup
    {JObj(a @@ b @@ c @@ d) :
        a \in Opt("stage", {JStr("rendering")}),
        b \in Opt("video", {JNull, JObj([title |-> JStr("X")])}),
        c \in Opt("progress", {JNum(50)}),
        d \in Opt("completed", {JBool(TRUE), JBool(FALSE)})}

\* Merge that falls back to the initial progress, not the current one
Merge_resets_progress(data) ==
    [current_stage |-> Get(data, "stage", pipeline_status["current_stage"]),
     current_video |-> Get(data, "video", pipeline_status["current_video"]),
     progress |-> Get(data, "progress", JNum(0)),
     last_updated |-> isoformat(now)]

\* the dict handed to pipeline_status.update
Merge(data) ==
    [current_stage |-> Get(data, "stage", pipeline_status["current_stage"]),
     current_video |-> Get(data, "video", pipeline_status["current_video"]),
     progress |-> Get(data, "progress", pipeline_status["progress"]),
     last_updated |-> isoformat(now)]

\* Counted that also counts the week
Counted_with_week(stats) ==
    [stats EXCEPT !.videos_today = @ + 1, !.videos_this_week = @ + 1,
                  !.total_videos = @ + 1]

\* pipeline_status["stats"] after the two increments
Counted(stats) ==
    [stats EXCEPT !.videos_today = @ + 1, !.total_videos = @ + 1]

\* POST /api/pipeline/update; t is the clock at the handler's last read of it
update_pipeline(body, t) ==
    /\ request' = [op |-> "update_pipeline", body |-> body]
    /\ IF ~HasGet(body)
       THEN /\ response' = [error |-> ErrorOf(body)]
            /\ UNCHANGED <<pipeline_status, now>>
       ELSE LET merged == Merge(body) @@ pipeline_status IN
            IF ~Truthy(Get(body, "completed", JNull))
            THEN /\ pipeline_status' = merged
                 /\ response' = [status |-> "updated"]
                 /\ UNCHANGED now
            ELSE LET video == Get(body, "video", JObj(EmptyDict)) IN
                 IF ~HasGet(video)
                 THEN /\ pipeline_status' = merged
                      /\ response' = [error |-> ErrorOf(video)]
                      /\ UNCHANGED now
                 ELSE /\ merged.stats.total_videos < MaxCompleted
                      /\ pipeline_status' =
                            [last_completed |->
                                JObj([title |-> Get(video, "title", JNull),
                                      timestamp |-> isoformat(t)]),
                             stats |-> Counted(merged.stats)] @@ merged
                      /\ response' = [status |-> "updated"]
                      /\ now' = t
    /\ completions' =
          IF HasGet(body) /\ Truthy(Get(body, "completed", JNull))
             /\ "status" \in DOMAIN response'
          THEN completions + 1 ELSE completions
    /\ UNCHANGED <<event_log, appended, logged>>

\* GET /api/pipeline/status
get_pipeline_status ==
    /\ request' = [op |-> "get_pipeline_status"]
    /\ response' = pipeline_status
    /\ UNCHANGED <<event_log, appended, pipeline_status, now, completions, logged>>

\* time passes between requests
Tick ==
    /\ now < MaxClock
    /\ now' = now + 1
    /\ request' = [op |-> "none"]
    /\ response' = EmptyDict
    /\ UNCHANGED <<event_log, pipeline_status, appended, completions, logged,
                   inflight, config, outbound>>

(***************************************************************************)
(* The upstream adapters.  Each makes at most one HTTP GET; up is what     *)
(* comes of it: no reply at all, or a reply with a status and a body.      *)
(***************************************************************************)
EnvNames ==
    {"N8N_API_KEY", "ELEVENLABS_API_KEY", "OPENAI_API_KEY", "COOLIFY_API_TOKEN",
     "VIDEO_API_URL"}

Transport == [kind |-> "transport"]
Reply(status, body) == [kind |-> "http", status |-> status, body |-> body]
NoCall == [kind |-> "none"]

Statuses == {200, 401, 500}

UpstreamBodies ==
    {Invalid, JNull, JArr(<<>>), JArr(<<JNum(1)>>), JObj(EmptyDict),
     JObj([message |-> JStr("unauthorized")]),
     JObj([id |-> JStr("Y9b62VBTOzErXVnb"), name |-> JStr("wf"), active |-> JBool(TRUE),
           updatedAt |-> JStr("t")]),
     JObj([data |-> JArr(<<JObj([id |-> JStr("7"), status |-> JStr("success")])>>)]),
     JObj([data |-> JNull]),
     JObj([character_count |-> JNum(2500), character_limit |-> JNum(10000),
           tier |-> JStr("creator")]),
     JObj([character_count |-> JNum(5), character_limit |-> JNum(0)]),
     JObj([character_count |-> JStr("many")]),
     JArr(<<JObj([name |-> JStr("video-api"), status |-> JStr("running"),
                  fqdn |-> JStr("v.troiamedia.cloud")])>>)}

Upstreams == {Transport} \cup {Reply(st, b) : st \in Statuses, b \in UpstreamBodies}

\* "for x in v": the items, or a TypeError for a value that is not iterable;
\* a dict yields its keys and a str its characters, both strings
Iterable(v) == v.t \in {"arr", "obj", "str"}
Items(v) ==
    CASE v.t = "arr" -> v.a
      [] v.t = "obj" ->
            IF DOMAIN v.o = {} THEN <<>> ELSE <<JStr(CHOOSE k \in DOMAIN v.o : TRUE)>>
      [] v.t = "str" -> IF v.s = "" THEN <<>> ELSE <<JStr(v.s)>>

\* [f(x) for x in v] where f calls x.get: it raises unless every item is a dict
AllHaveGet(v) == Iterable(v) /\ \A i \in 1..Len(Items(v)) : HasGet(Items(v)[i])

\* int, or bool, which Python counts as int
IsNumber(v) == v.t \in {"num", "bool"}
NumberOf(v) == IF v.t = "num" THEN v.n ELSE IF v.b THEN 1 ELSE 0

\* round(count / max(limit, 1) * 100, 1), in tenths: to the nearest tenth,
\* an exact half to the even one
UsageTenths(count, limit) ==
    LET d == IF limit > 1 THEN limit ELSE 1
        q == (count * 1000) \div d
        r == (count * 1000) % d
    IN IF 2 * r > d \/ (2 * r = d /\ q % 2 = 1) THEN q + 1 ELSE q

\* what the handler's "except Exception" returns
Caught(up, data) ==
    IF up.kind = "transport" THEN "ConnectError"
    ELSE IF data = Invalid THEN "JSONDecodeError"
    ELSE "TypeError"

\* GET /api/workflow/status
get_workflow_status(up) ==
    IF "N8N_API_KEY" \notin config
    THEN /\ request' = [op |-> "get_workflow_status", up |-> NoCall]
         /\ response' = [error |-> "N8N_API_KEY not configured", active |-> JBool(FALSE)]
         /\ outbound' = 0
    ELSE /\ request' = [op |-> "get_workflow_status", up |-> up]
         /\ outbound' = 1
         /\ IF up.kind = "transport" \/ ~HasGet(up.body)
            THEN response' = [error |-> Caught(up, IF up.kind = "transport" THEN Invalid ELSE up.body),
                              active |-> JBool(FALSE)]
            ELSE response' =
                    [id |-> Get(up.body, "id", JNull),
                     name |-> Get(up.body, "name", JNull),
                     active |-> Get(up.body, "active", JNull),
                     updatedAt |-> Get(up.body, "updatedAt", JNull),
                     triggerCount |-> Get(up.body, "triggerCount", JNum(0))]

\* one entry of the executions list
Execution(exe) ==
    JObj([id |-> Get(exe, "id", JNull),
          status |-> Get(exe, "status", JNull),
          startedAt |-> Get(exe, "startedAt", JNull),
          stoppedAt |-> Get(exe, "stoppedAt", JNull),
          mode |-> Get(exe, "mode", JNull)])

\* GET /api/workflow/executions
get_workflow_executions(up) ==
    IF "N8N_API_KEY" \notin config
    THEN /\ request' = [op |-> "get_workflow_executions", up |-> NoCall]
         /\ response' = [error |-> "N8N_API_KEY not configured", executions |-> <<>>]
         /\ outbound' = 0
    ELSE /\ request' = [op |-> "get_workflow_executions", up |-> up]
         /\ outbound' = 1
         /\ IF up.kind = "transport" \/ ~HasGet(up.body)
            THEN response' = [error |-> Caught(up, IF up.kind = "transport" THEN Invalid ELSE up.body),
                              executions |-> <<>>]
            ELSE LET data == Get(up.body, "data", JArr(<<>>)) IN
                 IF ~AllHaveGet(data)
                 THEN response' = [error |-> "TypeError", executions |-> <<>>]
                 ELSE response' =
                         [executions |->
                             [i \in 1..Len(Items(data)) |-> Execution(Items(data)[i])]]

\* GET /api/credits/elevenlabs
get_elevenlabs_credits(up) ==
    IF "ELEVENLABS_API_KEY" \notin config
    THEN /\ request' = [op |-> "get_elevenlabs_credits", up |-> NoCall]
         /\ response' = [error |-> "ELEVENLABS_API_KEY not configured"]
         /\ outbound' = 0
    ELSE /\ request' = [op |-> "get_elevenlabs_credits", up |-> up]
         /\ outbound' = 1
         /\ IF up.kind = "transport"
            THEN response' = [error |-> Caught(up, Invalid)]
            ELSE IF up.status # 200
            THEN response' = [error |-> "API key may have limited permissions",
                              character_count |-> JStr("N/A"),
                              character_limit |-> JStr("N/A"),
                              usage_percentage |-> 0]
            ELSE IF ~HasGet(up.body)
            THEN response' = [error |-> Caught(up, up.body)]
            ELSE LET count == Get(up.body, "character_count", JNum(0))
                     limit == Get(up.body, "character_limit", JNum(1))
                 IN IF ~(IsNumber(count) /\ IsNumber(limit))
                    THEN response' = [error |-> "TypeError"]
                    ELSE response' =
                            [character_count |-> count,
                             character_limit |-> Get(up.body, "character_limit", JNum(10000)),
                             tier |-> Get(up.body, "tier", JStr("free")),
                             usage_percentage |->
                                UsageTenths(NumberOf(count), NumberOf(limit))]

\* GET /api/credits/openai
get_openai_credits(up) ==
    IF "OPENAI_API_KEY" \notin config
    THEN /\ request' = [op |-> "get_openai_credits", up |-> NoCall]
         /\ response' = [error |-> "OPENAI_API_KEY not configured",
                         status |-> "not_configured"]
         /\ outbound' = 0
    ELSE /\ request' = [op |-> "get_openai_credits", up |-> up]
         /\ outbound' = 1
         /\ IF up.kind = "transport"
            THEN response' = [error |-> Caught(up, Invalid)]
            ELSE IF up.status = 200
            THEN response' =
                    [status |-> "active",
                     note |-> "OpenAI does not provide real-time credit balance via API",
                     check_at |-> "https://platform.openai.com/usage"]
            ELSE response' = [status |-> "error", message |-> "API key invalid"]

\* GET /api/services/video-api; an unset VIDEO_API_URL falls back to a fixed URL
get_video_api_status(up) ==
    /\ request' = [op |-> "get_video_api_status", up |-> up]
    /\ outbound' = 1
    /\ IF up.kind = "transport"
       THEN response' = [status |-> "offline", error |-> Caught(up, Invalid)]
       ELSE IF up.status # 200
       THEN response' = [status |-> "unhealthy", code |-> up.status]
       ELSE IF up.body = Invalid
       THEN response' = [status |-> "offline", error |-> Caught(up, up.body)]
       ELSE response' = [status |-> "healthy", data |-> up.body]

\* one entry of the applications list
Application(app) ==
    JObj([name |-> Get(app, "name", JNull),
          status |-> Get(app, "status", JNull),
          fqdn |-> Get(app, "fqdn", JNull)])

\* len(apps)
HasLen(v) == v.t \in {"arr", "obj", "str"}
LenOf(v) ==
    CASE v.t = "arr" -> Len(v.a)
      [] v.t = "obj" -> Cardinality(DOMAIN v.o)
      [] v.t = "str" -> IF v.s = "" THEN 0 ELSE 1

\* GET /api/services/coolify
get_coolify_status(up) ==
    IF "COOLIFY_API_TOKEN" \notin config
    THEN /\ request' = [op |-> "get_coolify_status", up |-> NoCall]
         /\ response' = [error |-> "COOLIFY_API_TOKEN not configured"]
         /\ outbound' = 0
    ELSE /\ request' = [op |-> "get_coolify_status", up |-> up]
         /\ outbound' = 1
         /\ IF up.kind = "transport"
            THEN response' = [error |-> Caught(up, Invalid)]
            ELSE IF up.status # 200
            THEN response' = [error |-> "Failed to fetch", code |-> up.status]
            ELSE IF up.body = Invalid \/ ~HasLen(up.body) \/ ~AllHaveGet(up.body)
            THEN response' = [error |-> Caught(up, up.body)]
            ELSE response' =
                    [total_apps |-> LenOf(up.body),
                     applications |->
                        [i \in 1..Len(Items(up.body)) |-> Application(Items(up.body)[i])]]

Adapters ==
    {"get_workflow_status", "get_workflow_executions", "get_elevenlabs_credits",
     "get_openai_credits", "get_video_api_status", "get_coolify_status"}

(***************************************************************************)
(* Requests in flight.  A handler is a coroutine on one event loop: it can *)
(* be suspended at "await request.json()" only, and from there it runs to  *)
(* its return without yielding.                                            *)
(***************************************************************************)
Posts == {"log_event", "log_agent_decision", "update_pipeline"}

\* the bodies posted while other requests are in flight
PostBodies(op) ==
    CASE op = "log_event" -> {Invalid, JObj(EmptyDict)}
      [] op = "log_agent_decision" -> {JObj([action |-> JStr("upload")])}
      [] op = "update_pipeline" ->
            {JObj([completed |-> JBool(TRUE), video |-> JObj([title |-> JStr("X")])]),
             JObj([completed |-> JBool(TRUE), video |-> JNull])}

\* the part of a handler after its await
Handle(r) ==
    CASE r.op = "log_event" -> log_event(r.body)
      [] r.op = "log_agent_decision" -> log_agent_decision(r.body)
      [] r.op = "update_pipeline" -> update_pipeline(r.body, now)

\* a handler is entered and suspends at its await; through the quiet
\* stretch of a behaviour's appends one plain log_event is in flight at a time
Accept(op, body) ==
    /\ BagCardinality(inflight) < MaxInFlight
    /\ Quiet => (inflight = EmptyBag /\ op = "log_event" /\ body = JObj(EmptyDict))
    /\ inflight' = inflight (+) SetToBag({[op |-> op, body |-> body]})
    /\ UNCHANGED <<event_log, pipeline_status, now, request, response, appended,
                   completions, logged, config, outbound>>

\* Resume in which a handler that finds another request in flight works on
\* the counters it read before its await, so that its increments are lost
Resume_stale(r) ==
    /\ BagIn(r, inflight)
    /\ IF BagCardinality(inflight) > 1 /\ r.op = "update_pipeline"
       THEN /\ request' = [op |-> r.op, body |-> r.body]
            /\ response' = [status |-> "updated"]
            /\ completions < MaxCompleted
            /\ completions' = completions + 1
            /\ UNCHANGED <<event_log, pipeline_status, now, appended, logged>>
       ELSE Handle(r)
    /\ inflight' = inflight (-) SetToBag({r})
    /\ (Len(appended') >= VariedHead /\ Len(appended') < MaxAppends - VariedTail)
          => inflight' = EmptyBag
    /\ UNCHANGED <<config, outbound>>

\* the body arrives and the handler runs to its return; the append that
\* opens or continues the quiet stretch leaves no request in flight
Resume(r) ==
    /\ BagIn(r, inflight)
    /\ Handle(r)
    /\ inflight' = inflight (-) SetToBag({r})
    /\ (Len(appended') >= VariedHead /\ Len(appended') < MaxAppends - VariedTail)
          => inflight' = EmptyBag
    /\ UNCHANGED <<config, outbound>>

(***************************************************************************)
(* Specifications.                                                         *)
(***************************************************************************)
\* the state once the module is loaded under environment env
Boot(env) ==
    /\ event_log = <<>>
    /\ pipeline_status =
          [current_stage |-> JStr("idle"),
           current_video |-> JNull,
           progress |-> JNum(0),
           last_completed |-> JNull,
           stats |-> [videos_today |-> 0, videos_this_week |-> 0, total_videos |-> 0]]
    /\ now = 0
    /\ request = [op |-> "none"]
    /\ response = EmptyDict
    /\ appended = <<>>
    /\ completions = 0
    /\ logged = 0
    /\ inflight = EmptyBag
    /\ config = env
    /\ outbound = 0

Init == Boot({})

\* a request whose body has arrived in full is handled in one step
LogEvent ==
    \E body \in EventBodies :
        log_event(body) /\ UNCHANGED <<inflight, config, outbound>>
LogAgentDecision ==
    \E body \in DecisionBodies :
        log_agent_decision(body) /\ UNCHANGED <<inflight, config, outbound>>
GetEvents ==
    \E limit \in Limits : get_events(limit) /\ UNCHANGED <<inflight, config, outbound>>
UpdatePipeline ==
    \E body \in UpdateBodies :
        \E t \in {now, IF now < MaxClock THEN now + 1 ELSE now} :
            update_pipeline(body, t) /\ UNCHANGED <<inflight, config, outbound>>
GetPipelineStatus ==
    get_pipeline_status /\ UNCHANGED <<inflight, config, outbound>>
AcceptRequest == \E op \in Posts : \E body \in PostBodies(op) : Accept(op, body)
ResumeRequest == \E r \in BagToSet(inflight) : Resume(r)

\* the event log, one request at a time, the clock standing still
NextLog == LogEvent \/ LogAgentDecision \/ GetEvents
SpecLog == Init /\ [][NextLog]_vars

\* the pipeline status, one request at a time
NextPipeline == UpdatePipeline \/ GetPipelineStatus \/ Tick
SpecPipeline == Init /\ [][NextPipeline]_vars

\* POST requests interleaved at their awaits, the clock standing still
NextConcurrent == AcceptRequest \/ ResumeRequest
SpecConcurrent == Init /\ [][NextConcurrent]_vars

\* the adapters, under every environment
Idle ==
    UNCHANGED <<event_log, pipeline_status, now, appended, completions, logged,
                inflight, config>>
GetWorkflowStatus == \E up \in Upstreams : get_workflow_status(up) /\ Idle
GetWorkflowExecutions == \E up \in Upstreams : get_workflow_executions(up) /\ Idle
GetElevenlabsCredits == \E up \in Upstreams : get_elevenlabs_credits(up) /\ Idle
GetOpenaiCredits == \E up \in Upstreams : get_openai_credits(up) /\ Idle
GetVideoApiStatus == \E up \in Upstreams : get_video_api_status(up) /\ Idle
GetCoolifyStatus == \E up \in Upstreams : get_coolify_status(up) /\ Idle

InitAdapters == \E env \in SUBSET EnvNames : Boot(env)
NextAdapters ==
    \/ GetWorkflowStatus \/ GetWorkflowExecutions \/ GetElevenlabsCredits
    \/ GetOpenaiCredits \/ GetVideoApiStatus \/ GetCoolifyStatus
SpecAdapters == InitAdapters /\ [][NextAdapters]_vars

(***************************************************************************)
(* Properties of the event log.                                            *)
(***************************************************************************)
Min(a, b) == IF a < b THEN a ELSE b
Logged == "status" \in DOMAIN response /\ response.status = "logged"
Failed == "error" \in DOMAIN response

\* C1: the log never holds more than 100 events, and it holds exactly the
\* min(k, 100) most recently appended events, newest first, where k is the
\* number of appends so far: past 100, each append evicts the oldest.
C1_RingBuffer ==
    LET k == Len(appended)
        n == Min(k, maxlen)
    IN /\ Len(event_log) <= maxlen
       /\ Len(event_log) = n
       /\ \A i \in 1..n : event_log[i] = appended[k - i + 1]

\* a decision appended to a full log, the oldest event evicted
C1_Witness ==
    /\ Len(appended) > maxlen
    /\ request.op = "log_agent_decision"
    /\ Logged
    /\ event_log[1].type = JStr("decision")
    /\ event_log[maxlen] = appended[Len(appended) - maxlen + 1]

\* C2: get_events(limit), for every integer limit, returns the most recent
\* limit held events (all of them when fewer are held) newest first, with
\* total the number of events held, at most 100, and leaves the log unchanged.
C2_Snapshot ==
    [][request'.op = "get_events" =>
        LET n == Len(event_log)
            m == IF request'.limit < 0 THEN 0 ELSE Min(request'.limit, n)
        IN /\ Len(response'.events) = m
           /\ \A i \in 1..m :
                response'.events[i] = appended[Len(appended) - i + 1]
           /\ response'.total = n
           /\ response'.total <= maxlen
           /\ event_log' = event_log]_vars

\* C5: log_event given a body that is not parseable JSON, or not an object,
\* returns a response with an error field and leaves the log as it was.
C5_MalformedEvent ==
    [][(request'.op = "log_event" /\ ~HasGet(request'.body)) =>
        /\ "error" \in DOMAIN response'
        /\ event_log' = event_log]_vars

\* a malformed body refused while the log holds events
C5_Witness ==
    /\ request.op = "log_event"
    /\ request.body = Invalid
    /\ Failed
    /\ Len(event_log) > 0

\* C7: the ids given to appended events are strictly increasing, so unique,
\* over any number of appends.
C7_IdsIncrease ==
    \A i \in 1..(Len(appended) - 1) : appended[i].id < appended[i + 1].id

(***************************************************************************)
(* Properties of the pipeline status.                                      *)
(***************************************************************************)
Absent(body, key) == ~HasGet(body) \/ key \notin DOMAIN body.o
Updated == "status" \in DOMAIN response /\ response.status = "updated"

\* C3: an update keeps current_stage, current_video and progress when the
\* payload lacks stage, video and progress; it keeps stats and last_completed
\* when the payload has no completed flag; a successful update sets
\* last_updated to the time of the call; the payload {stage: "rendering"}
\* changes current_stage and last_updated only.
C3_PartialMerge ==
    [][request'.op = "update_pipeline" =>
        LET body == request'.body IN
        /\ Absent(body, "stage") =>
              pipeline_status'.current_stage = pipeline_status.current_stage
        /\ Absent(body, "video") =>
              pipeline_status'.current_video = pipeline_status.current_video
        /\ Absent(body, "progress") =>
              pipeline_status'.progress = pipeline_status.progress
        /\ Absent(body, "completed") =>
              /\ pipeline_status'.stats = pipeline_status.stats
              /\ pipeline_status'.last_completed = pipeline_status.last_completed
        /\ ("status" \in DOMAIN response' /\ response'.status = "updated") =>
              pipeline_status'.last_updated = isoformat(now)
        /\ body = JObj([stage |-> JStr("rendering")]) =>
              pipeline_status' =
                 [current_stage |-> JStr("rendering"),
                  last_updated |-> isoformat(now)] @@ pipeline_status]_vars

\* {stage: "rendering"} applied where progress, video and stats had been set
C3_Witness ==
    /\ request.op = "update_pipeline"
    /\ request.body = JObj([stage |-> JStr("rendering")])
    /\ Updated
    /\ pipeline_status.current_stage = JStr("rendering")
    /\ pipeline_status.progress = JNum(50)
    /\ pipeline_status.current_video = JObj([title |-> JStr("X")])
    /\ pipeline_status.stats.total_videos > 0
    /\ pipeline_status.last_updated = isoformat(MaxClock)

\* C4: an update with completed true and video {title: X} adds one to
\* videos_today and to total_videos, sets last_completed.title to X and
\* keeps videos_this_week; no counter ever decreases; total_videos is the
\* number of completed updates that returned status updated.
C4_Completed ==
    [][/\ (/\ request'.op = "update_pipeline"
           /\ ~Absent(request'.body, "completed")
           /\ request'.body.o.completed = JBool(TRUE)
           /\ ~Absent(request'.body, "video")
           /\ HasGet(request'.body.o.video)
           /\ "title" \in DOMAIN request'.body.o.video.o) =>
              /\ pipeline_status'.stats.videos_today =
                    pipeline_status.stats.videos_today + 1
              /\ pipeline_status'.stats.total_videos =
                    pipeline_status.stats.total_videos + 1
              /\ pipeline_status'.stats.videos_this_week =
                    pipeline_status.stats.videos_this_week
              /\ pipeline_status'.last_completed.o.title =
                    request'.body.o.video.o.title
       /\ pipeline_status'.stats.videos_today >= pipeline_status.stats.videos_today
       /\ pipeline_status'.stats.videos_this_week >=
             pipeline_status.stats.videos_this_week
       /\ pipeline_status'.stats.total_videos >= pipeline_status.stats.total_videos
       /\ pipeline_status'.stats.total_videos = completions']_vars

\* a second completed update of video X, after a completed update that failed
C4_Witness ==
    /\ request.op = "update_pipeline"
    /\ ~Absent(request.body, "completed")
    /\ request.body.o.completed = JBool(TRUE)
    /\ Updated
    /\ pipeline_status.stats.total_videos = 2
    /\ pipeline_status.stats.videos_today = 2
    /\ pipeline_status.last_completed.t = "obj"
    /\ pipeline_status.last_completed.o.title = JStr("X")

\* C6: an update that returns a response with an error field has changed no
\* field of the pipeline status.
C6_NoPartialUpdate ==
    [][(request'.op = "update_pipeline" /\ "error" \in DOMAIN response') =>
        pipeline_status' = pipeline_status]_vars

(***************************************************************************)
(* Properties of interleaved requests.                                     *)
(***************************************************************************)
\* C10: under every interleaving of in-flight log_event, log_agent_decision
\* and update_pipeline requests, each response with status logged stands for
\* one insertion into the log, every inserted event is held until capacity
\* evicts it, the log holds at most 100 events, and videos_today and
\* total_videos are the number of completed updates that returned updated.
C10_NoLostUpdate ==
    LET k == Len(appended)
        n == Min(k, maxlen)
    IN /\ k = logged
       /\ Len(event_log) = n
       /\ n <= maxlen
       /\ \A i \in 1..n : event_log[i] = appended[k - i + 1]
       /\ pipeline_status.stats.videos_today = completions
       /\ pipeline_status.stats.total_videos = completions

\* the last completed update returned while a decision was in flight, the
\* log full and past its first eviction
C10_Witness ==
    /\ Len(appended) > maxlen
    /\ request.op = "update_pipeline"
    /\ Updated
    /\ completions = MaxCompleted
    /\ BagCardinality(inflight) >= 1
    /\ \A r \in BagToSet(inflight) : r.op = "log_agent_decision"

(***************************************************************************)
(* Properties of the adapters.                                             *)
(***************************************************************************)
\* the environment variable an adapter needs
CredentialOf(op) ==
    CASE op \in {"get_workflow_status", "get_workflow_executions"} -> "N8N_API_KEY"
      [] op = "get_elevenlabs_credits" -> "ELEVENLABS_API_KEY"
      [] op = "get_openai_credits" -> "OPENAI_API_KEY"
      [] op = "get_video_api_status" -> "VIDEO_API_URL"
      [] op = "get_coolify_status" -> "COOLIFY_API_TOKEN"

\* the fields of an adapter's result when its upstream call succeeds
SuccessFields(op) ==
    CASE op = "get_workflow_status" -> {"id", "name", "active", "updatedAt", "triggerCount"}
      [] op = "get_workflow_executions" -> {"executions"}
      [] op = "get_elevenlabs_credits" ->
            {"character_count", "character_limit", "tier", "usage_percentage"}
      [] op = "get_openai_credits" -> {"status", "note", "check_at"}
      [] op = "get_video_api_status" -> {"status", "data"}
      [] op = "get_coolify_status" -> {"total_apps", "applications"}

\* no reply, a status outside 2xx, or a body that is not JSON
UpstreamFailure(up) ==
    \/ up.kind = "transport"
    \/ up.kind = "http" /\ (up.status < 200 \/ up.status > 299 \/ up.body = Invalid)

NotConfiguredMessages ==
    {"N8N_API_KEY not configured", "ELEVENLABS_API_KEY not configured",
     "OPENAI_API_KEY not configured", "COOLIFY_API_TOKEN not configured",
     "VIDEO_API_URL not configured"}

\* C8: every adapter, on every upstream outcome that is a transport error,
\* a non-2xx status or a malformed response, returns a result with an error
\* field.
C8_UpstreamFailureHasError ==
    (request.op \in Adapters /\ UpstreamFailure(request.up)) =>
        "error" \in DOMAIN response

\* C9: every adapter called while its credential or URL is not configured
\* makes no outbound call and returns a not-configured indication with a
\* fallback value for every field of its successful result.
C9_NotConfigured ==
    (request.op \in Adapters /\ CredentialOf(request.op) \notin config) =>
        /\ outbound = 0
        /\ "error" \in DOMAIN response
        /\ response.error \in NotConfiguredMessages
        /\ SuccessFields(request.op) \subseteq DOMAIN response

====
